---- MODULE Spec2Model ----
(***************************************************************************)
(* Verification model of the mailin SMTP session state machine             *)
(* (mailin/src/fsm.rs): the phase automaton, its capability state and the  *)
(* handler callbacks every step makes; and of the MIME event parser        *)
(* (mime-event/src/parser.rs) with the events it sends to its handler.     *)
(***************************************************************************)
EXTENDS Integers, Sequences, FiniteSets, TLC

VARIABLES
    smtp,          \* StateMachine.smtp: the current phase object, or NoState
    auth_state,    \* StateMachine.auth_state
    tls,           \* StateMachine.tls
    auth_plain,    \* StateMachine.auth_plain
    auth_login,    \* StateMachine.auth_login
    auth_mechanisms, \* StateMachine.auth_mechanisms, in configuration order
    insecure_allow_plaintext_auth,
    last,          \* observation of the latest step: phase before, input, response, handler calls
    ends,          \* SpecCounted: handler.data_end calls since the latest successful data_start
    rehello,       \* STARTTLS was accepted and no HELO/EHLO has been accepted since
    env,           \* SpecEnvelope: what the handler has accepted of the open transaction
    parser,        \* SpecMime: the EventParser; its handler field is the events received
    result,        \* SpecMime: what the latest EventParser::data call returned
    written,       \* SpecMime: the number of EventParser::data calls made
    ended,         \* SpecMime: EventParser::end has consumed the parser
    message,       \* SpecMessage: the message being written, line by line
    counters,      \* SpecStore: the AtomicU32 cells allocated, each behind its Arc
    stores,        \* SpecStore: the MailStore values: the original and its clones
    threads,       \* SpecStore: where the thread that owns each MailStore stands
    names,         \* SpecStore: the file names message_file has returned, in order
    wrapped,       \* SpecStore: a counter has gone round, 2^32 messages were started
    tmp,           \* SpecStore: the files in <dir>/tmp
    new,           \* SpecStore: the files in <dir>/new
    overwritten    \* SpecStore: File::create has truncated a file that was in tmp

vars == <<smtp, auth_state, tls, auth_plain, auth_login, auth_mechanisms,
          insecure_allow_plaintext_auth, last, ends, rehello, env,
          parser, result, written, ended, message,
          counters, stores, threads, names, wrapped, tmp, new, overwritten>>

mime_vars == <<parser, result, written, ended, message>>

store_vars == <<counters, stores, threads, names, wrapped, tmp, new, overwritten>>

-----------------------------------------------------------------------------
(* Bounds of the model *)

\* longest forward_path list a transaction may accumulate
MaxRcpt == 2
\* longest data line body (bytes before CRLF)
MaxLine == 2
\* the data_end counter saturates here
MaxEnds == 2
\* most EventParser::data calls on one parser
MaxData == 5
\* SpecMessage: most parts of a multipart message
MaxParts == 2
\* SpecMessage: most body lines of a message or of a part
MaxBody == 2
\* SpecMessage: most lines written after the close boundary
MaxEpilogue == 2
\* SpecStore: most MailStore values, the original and its clones
MaxStores == 3
\* SpecStore: most message_file calls, earlier ones counted
MaxMessages == 4

Domains == {"d1", "d2"}
ReversePaths == {"s1"}
ForwardPaths == {"p1", "p2"}
B64 == {"r1", "r2"}
DataChars == {".", "a"}

-----------------------------------------------------------------------------
(* Responses *)

Resp(code, action, text) ==
    [code |-> code, action |-> action, is_error |-> code >= 400, text |-> text,
     ext |-> <<>>]

GOODBYE == Resp(221, "Close", "Goodbye")
AUTH_OK == Resp(235, "Reply", "Authentication succeeded")
OK == Resp(250, "Reply", "OK")
VERIFY_RESPONSE == Resp(252, "Reply", "Maybe")
START_DATA == Resp(354, "Reply", "Start mail input")
USERNAME_AUTH_CHALLENGE == Resp(334, "Reply", "VXNlcm5hbWU6")
PASSWORD_AUTH_CHALLENGE == Resp(334, "Reply", "UGFzc3dvcmQ6")
EMPTY_AUTH_CHALLENGE == Resp(334, "Reply", "")
START_TLS == Resp(220, "UpgradeTls", "Ready to start TLS")
BAD_HELLO == Resp(505, "Reply", "Bad hello")
BAD_SEQUENCE_COMMANDS == Resp(503, "Reply", "Bad sequence of commands")
TRANSACTION_FAILED == Resp(554, "Reply", "Transaction failed")
INVALID_STATE == Resp(421, "Close", "Internal service error")
SYNTAX_ERROR == Resp(500, "Reply", "Syntax error")
BAD_AUTH_SYNTAX == Resp(501, "Reply", "Bad parameter")
EMPTY_RESPONSE ==
    [code |-> 0, action |-> "NoReply", is_error |-> FALSE, text |-> "", ext |-> <<>>]

\* what a handler callback may answer
NO_MAILBOX == Resp(550, "Reply", "Mailbox unavailable")
NO_SERVICE == Resp(421, "Close", "Service not available")
HandlerResponses == {OK, AUTH_OK, NO_MAILBOX, NO_SERVICE, GOODBYE}

-----------------------------------------------------------------------------
(* Commands and input lines *)

CR == "\r"
LF == "\n"

\* parser::decode_sasl_plain, parser::decode_sasl_login
DecodeSaslPlain(response) == <<"plain", response>>
DecodeSaslLogin(response) == <<"login", response>>

\* the credentials an AUTH command line may carry, decoded by the line parser
Creds == {DecodeSaslPlain("r1")}
Users == {DecodeSaslLogin("r1")}

\* the commands the line parser produces
ParserCmds ==
    [k : {"Helo", "Ehlo"}, domain : Domains]
    \cup [k : {"Mail"}, reverse_path : ReversePaths, is8bit : BOOLEAN]
    \cup [k : {"Rcpt"}, forward_path : ForwardPaths]
    \cup [k : {"Data", "Rset", "Quit", "Noop", "Vrfy", "StartTls",
               "AuthPlainEmpty", "AuthLoginEmpty"}]
    \cup [k : {"AuthPlain"}, creds : Creds]
    \cup [k : {"AuthLogin"}, username : Users]

DataEnd == [k |-> "DataEnd"]
StartedTls == [k |-> "StartedTls"]
AuthResponse(r) == [k |-> "AuthResponse", response |-> r]

RECURSIVE SeqsUpTo(_, _)
SeqsUpTo(S, n) ==
    IF n = 0 THEN {<<>>}
    ELSE LET shorter == SeqsUpTo(S, n - 1)
         IN shorter \cup {Append(s, c) : s \in shorter, c \in S}

\* the lines a client may send: a well-formed command, a base64 token, or
\* text (dots and letters) that is neither
Lines ==
    [k : {"cmd"}, cmd : ParserCmds]
    \cup [k : {"b64"}, response : B64]
    \cup [k : {"text"}, body : SeqsUpTo(DataChars, MaxLine)]

\* the bytes of a line, CRLF included; commands and tokens begin with a letter
Bytes(line) ==
    IF line.k = "text" THEN line.body \o <<CR, LF>> ELSE <<"a", CR, LF>>

Left(cmd) == [side |-> "Left", cmd |-> cmd]
Right(res) == [side |-> "Right", res |-> res]

\* parser::parse
Parse(line) ==
    IF line.k = "cmd" THEN Left(line.cmd) ELSE Right(SYNTAX_ERROR)

\* the command lines that are one bare verb: DATA, RSET, QUIT, NOOP, STARTTLS
BareVerbs == {"Data", "Rset", "Quit", "Noop", "StartTls"}

\* the line is one run of base64 characters before CRLF: a token, or a bare
\* verb (letters only); a command with an argument has a space in it
IsBase64(line) ==
    line.k = "b64" \/ (line.k = "cmd" /\ line.cmd.k \in BareVerbs)

\* the token a base64 line carries
Token(line) == IF line.k = "b64" THEN line.response ELSE "verb"

\* parser::parse_auth_response
ParseAuthResponse(line) ==
    IF IsBase64(line) THEN Left(AuthResponse(Token(line)))
    ELSE Right(BAD_AUTH_SYNTAX)

-----------------------------------------------------------------------------
(* Phase objects *)

NoState == [id |-> "Invalid"]
Idle == [id |-> "Idle"]
Hello(domain) == [id |-> "Hello", domain |-> domain]
HelloAuth(domain) == [id |-> "HelloAuth", domain |-> domain]
Auth(domain, mechanism, username) ==
    [id |-> "Auth", domain |-> domain, mechanism |-> mechanism, username |-> username]
Mail(domain, reverse_path, is8bit) ==
    [id |-> "Mail", domain |-> domain, reverse_path |-> reverse_path, is8bit |-> is8bit]
Rcpt(domain, reverse_path, is8bit, forward_path) ==
    [id |-> "Rcpt", domain |-> domain, reverse_path |-> reverse_path,
     is8bit |-> is8bit, forward_path |-> forward_path]
Data(domain, has_error) ==
    [id |-> "Data", domain |-> domain, has_error |-> has_error]

\* Option<String> of Auth.username
None == <<>>
Some(x) == <<x>>

\* one handler callback made during a step
Call(f, a) == [f |-> f, a |-> a]

\* the outcome of State::handle: response, next phase object, the capability
\* state it leaves in the StateMachine, and the handler callbacks it made
Out(res, next, fsm, calls) ==
    [res |-> res, next |-> next, auth_state |-> fsm.auth_state, tls |-> fsm.tls,
     calls |-> calls]

-----------------------------------------------------------------------------
(* Transition helpers *)

\* fn next_state
next_state(current, res, next) ==
    IF res.action = "Close" THEN NoState
    ELSE IF res.is_error THEN current
    ELSE next

\* transform_state with the error branch lost: an error enters the successor
transform_state_error_advances(current, res, next) ==
    IF res.action = "Close" THEN NoState ELSE next

\* fn transform_state
transform_state(current, res, next) ==
    IF res.action = "Close" THEN NoState
    ELSE IF res.is_error THEN current
    ELSE next

\* allow_auth that takes TLS on offer for TLS in use
allow_auth_tls_offered(fsm) ==
    fsm.insecure_allow_plaintext_auth \/ fsm.tls # "Unavailable"

\* StateMachine::allow_auth
allow_auth(fsm) ==
    fsm.insecure_allow_plaintext_auth \/ fsm.tls = "Active"

\* StateMachine::allow_auth_plain
allow_auth_plain(fsm) == fsm.auth_plain /\ allow_auth(fsm)

\* StateMachine::allow_auth_login
allow_auth_login(fsm) == fsm.auth_login /\ allow_auth(fsm)

RECURSIVE AuthAvailable(_, _)
\* the loop of ehlo_response that appends " " and each mechanism's name
AuthAvailable(acc, mechs) ==
    IF mechs = <<>> THEN acc
    ELSE AuthAvailable(acc \o " " \o Head(mechs), Tail(mechs))

\* ehlo_response that offers AUTH whether or not the gate is open
ehlo_response_auth_ungated(fsm) ==
    LET base == <<"8BITMIME">>
        withTls == IF fsm.tls = "Inactive" THEN Append(base, "STARTTLS") ELSE base
        extensions ==
            IF fsm.auth_mechanisms # <<>>
            THEN Append(withTls, AuthAvailable("AUTH", fsm.auth_mechanisms))
            ELSE withTls
    IN [code |-> 250, action |-> "Reply", is_error |-> FALSE,
        text |-> "server offers extensions:", ext |-> extensions]

\* StateMachine::ehlo_response
ehlo_response(fsm) ==
    LET base == <<"8BITMIME">>
        withTls == IF fsm.tls = "Inactive" THEN Append(base, "STARTTLS") ELSE base
        extensions ==
            IF allow_auth(fsm) /\ fsm.auth_mechanisms # <<>>
            THEN Append(withTls, AuthAvailable("AUTH", fsm.auth_mechanisms))
            ELSE withTls
    IN [code |-> 250, action |-> "Reply", is_error |-> FALSE,
        text |-> "server offers extensions:", ext |-> extensions]

\* an unhandled that answers 503 and falls back to the Idle phase
unhandled_resets(current, fsm) == Out(BAD_SEQUENCE_COMMANDS, Idle, fsm, <<>>)

\* fn unhandled
unhandled(current, fsm) == Out(BAD_SEQUENCE_COMMANDS, current, fsm, <<>>)

\* fn handle_rset
handle_rset(fsm, domain) ==
    IF fsm.auth_state = "Unavailable"
    THEN Out(OK, Hello(domain), fsm, <<>>)
    ELSE Out(OK, HelloAuth(domain), fsm, <<>>)

\* a handle_helo that greets whatever the auth state
handle_helo_always_greets(current, fsm, h, domain) ==
    LET res == h.resp
    IN Out(res, next_state(current, res, Hello(domain)), fsm,
           <<Call("helo", <<domain>>)>>)

\* fn handle_helo
handle_helo(current, fsm, h, domain) ==
    IF fsm.auth_state = "Unavailable"
    THEN LET res == h.resp
         IN Out(res, next_state(current, res, Hello(domain)), fsm,
                <<Call("helo", <<domain>>)>>)
    ELSE Out(BAD_HELLO, current, fsm, <<>>)

\* fn handle_ehlo
handle_ehlo(current, fsm, h, domain) ==
    LET res0 == h.resp
        res == IF res0.code = 250 THEN ehlo_response(fsm) ELSE res0
        calls == <<Call("helo", <<domain>>)>>
    IN IF fsm.auth_state = "Unavailable"
       THEN Out(res, next_state(current, res, Hello(domain)), fsm, calls)
       ELSE Out(res, next_state(current, res, HelloAuth(domain)), fsm, calls)

\* default_handler without its Noop arm
default_handler_without_noop(current, fsm, h, cmd) ==
    CASE cmd.k = "Quit" -> Out(GOODBYE, NoState, fsm, <<>>)
      [] cmd.k = "Helo" -> handle_helo(current, fsm, h, cmd.domain)
      [] cmd.k = "Ehlo" -> handle_ehlo(current, fsm, h, cmd.domain)
      [] OTHER -> unhandled(current, fsm)

\* fn default_handler
default_handler(current, fsm, h, cmd) ==
    CASE cmd.k = "Quit" -> Out(GOODBYE, NoState, fsm, <<>>)
      [] cmd.k = "Helo" -> handle_helo(current, fsm, h, cmd.domain)
      [] cmd.k = "Ehlo" -> handle_ehlo(current, fsm, h, cmd.domain)
      [] cmd.k = "Noop" -> Out(OK, current, fsm, <<>>)
      [] OTHER -> unhandled(current, fsm)

\* the assignment to fsm.auth_state in authenticate_plain / authenticate_login
AuthStateAfter(auth_res) ==
    IF auth_res.code = 235 THEN "Authenticated" ELSE "RequiresAuth"

\* fn authenticate_plain: the response, the StateMachine afterwards, the call
authenticate_plain(fsm, h, creds) ==
    LET auth_res == h.resp
    IN [res |-> auth_res,
        fsm |-> [fsm EXCEPT !.auth_state = AuthStateAfter(auth_res)],
        calls |-> <<Call("auth_plain", <<creds>>)>>]

\* fn authenticate_login
authenticate_login(fsm, h, username, password) ==
    LET auth_res == h.resp
    IN [res |-> auth_res,
        fsm |-> [fsm EXCEPT !.auth_state = AuthStateAfter(auth_res)],
        calls |-> <<Call("auth_login", <<username, password>>)>>]

-----------------------------------------------------------------------------
(* The phases *)

\* Idle::handle
IdleHandle(self, fsm, h, cmd) ==
    CASE cmd.k = "StartedTls" ->
            Out(EMPTY_RESPONSE, self, [fsm EXCEPT !.tls = "Active"], <<>>)
      [] cmd.k = "Rset" -> Out(OK, self, fsm, <<>>)
      [] OTHER -> default_handler(self, fsm, h, cmd)

\* Hello::handle with a STARTTLS arm that keeps the greeted phase
HelloHandle_keeps_hello(self, fsm, h, cmd) ==
    CASE cmd.k = "Mail" ->
            LET res == h.resp
            IN Out(res,
                   transform_state(self, res,
                                   Mail(self.domain, cmd.reverse_path, cmd.is8bit)),
                   fsm, <<Call("mail", <<self.domain, cmd.reverse_path>>)>>)
      [] cmd.k = "StartTls" /\ fsm.tls = "Inactive" -> Out(START_TLS, self, fsm, <<>>)
      [] cmd.k = "Vrfy" -> Out(VERIFY_RESPONSE, self, fsm, <<>>)
      [] cmd.k = "Rset" -> handle_rset(fsm, self.domain)
      [] OTHER -> default_handler(self, fsm, h, cmd)

\* Hello::handle
HelloHandle(self, fsm, h, cmd) ==
    CASE cmd.k = "Mail" ->
            LET res == h.resp
            IN Out(res,
                   transform_state(self, res,
                                   Mail(self.domain, cmd.reverse_path, cmd.is8bit)),
                   fsm, <<Call("mail", <<self.domain, cmd.reverse_path>>)>>)
      [] cmd.k = "StartTls" /\ fsm.tls = "Inactive" -> Out(START_TLS, Idle, fsm, <<>>)
      [] cmd.k = "Vrfy" -> Out(VERIFY_RESPONSE, self, fsm, <<>>)
      [] cmd.k = "Rset" -> handle_rset(fsm, self.domain)
      [] OTHER -> default_handler(self, fsm, h, cmd)

\* HelloAuth::handle
HelloAuthHandle(self, fsm, h, cmd) ==
    CASE cmd.k = "StartTls" -> Out(START_TLS, Idle, fsm, <<>>)
      [] cmd.k = "AuthPlain" /\ allow_auth_plain(fsm) ->
            LET a == authenticate_plain(fsm, h, cmd.creds)
            IN Out(a.res, transform_state(self, a.res, Hello(self.domain)),
                   a.fsm, a.calls)
      [] cmd.k = "AuthPlainEmpty" /\ allow_auth_plain(fsm) ->
            Out(EMPTY_AUTH_CHALLENGE, Auth(self.domain, "PLAIN", None), fsm, <<>>)
      [] cmd.k = "AuthLogin" /\ allow_auth_login(fsm) ->
            Out(PASSWORD_AUTH_CHALLENGE,
                Auth(self.domain, "LOGIN", Some(cmd.username)), fsm, <<>>)
      [] cmd.k = "AuthLoginEmpty" /\ allow_auth_login(fsm) ->
            Out(USERNAME_AUTH_CHALLENGE, Auth(self.domain, "LOGIN", None), fsm, <<>>)
      [] cmd.k = "Rset" -> handle_rset(fsm, self.domain)
      [] OTHER -> default_handler(self, fsm, h, cmd)

\* Auth::handle
AuthHandle(self, fsm, h, cmd) ==
    IF cmd.k = "AuthResponse"
    THEN IF self.mechanism = "PLAIN"
         THEN LET creds == DecodeSaslPlain(cmd.response)
                  a == authenticate_plain(fsm, h, creds)
              IN IF a.res.is_error
                 THEN Out(a.res, HelloAuth(self.domain), a.fsm, a.calls)
                 ELSE Out(a.res, Hello(self.domain), a.fsm, a.calls)
         ELSE LET credential == DecodeSaslLogin(cmd.response)
              IN IF self.username # None
                 THEN LET a == authenticate_login(fsm, h, Head(self.username),
                                                  credential)
                      IN IF a.res.is_error
                         THEN Out(a.res, HelloAuth(self.domain), a.fsm, a.calls)
                         ELSE Out(a.res, Hello(self.domain), a.fsm, a.calls)
                 ELSE Out(PASSWORD_AUTH_CHALLENGE,
                          [self EXCEPT !.username = Some(credential)], fsm, <<>>)
    ELSE unhandled(self, fsm)

\* Mail::handle
MailHandle(self, fsm, h, cmd) ==
    CASE cmd.k = "Rcpt" ->
            LET res == h.resp
            IN Out(res,
                   transform_state(self, res,
                                   Rcpt(self.domain, self.reverse_path, self.is8bit,
                                        <<cmd.forward_path>>)),
                   fsm, <<Call("rcpt", <<cmd.forward_path>>)>>)
      [] cmd.k = "Rset" -> handle_rset(fsm, self.domain)
      [] OTHER -> default_handler(self, fsm, h, cmd)

\* Rcpt::handle that adds a further recipient before the handler accepts it
RcptHandle_keeps_rejected(self, fsm, h, cmd) ==
    CASE cmd.k = "Data" ->
            LET res0 == h.resp
                res == IF res0.is_error THEN res0 ELSE START_DATA
            IN Out(res, transform_state(self, res, Data(self.domain, FALSE)), fsm,
                   <<Call("data_start", <<self.domain, self.reverse_path,
                                          self.is8bit, self.forward_path>>)>>)
      [] cmd.k = "Rcpt" ->
            LET res == h.resp
                added == Rcpt(self.domain, self.reverse_path, self.is8bit,
                              Append(self.forward_path, cmd.forward_path))
            IN Out(res, transform_state(added, res, added),
                   fsm, <<Call("rcpt", <<cmd.forward_path>>)>>)
      [] cmd.k = "Rset" -> handle_rset(fsm, self.domain)
      [] OTHER -> default_handler(self, fsm, h, cmd)

\* Rcpt::handle
RcptHandle(self, fsm, h, cmd) ==
    CASE cmd.k = "Data" ->
            LET res0 == h.resp
                res == IF res0.is_error THEN res0 ELSE START_DATA
            IN Out(res, transform_state(self, res, Data(self.domain, FALSE)), fsm,
                   <<Call("data_start", <<self.domain, self.reverse_path,
                                          self.is8bit, self.forward_path>>)>>)
      [] cmd.k = "Rcpt" ->
            LET res == h.resp
            IN Out(res,
                   transform_state(self, res,
                                   Rcpt(self.domain, self.reverse_path, self.is8bit,
                                        Append(self.forward_path, cmd.forward_path))),
                   fsm, <<Call("rcpt", <<cmd.forward_path>>)>>)
      [] cmd.k = "Rset" -> handle_rset(fsm, self.domain)
      [] OTHER -> default_handler(self, fsm, h, cmd)

\* Data::handle
DataHandle(self, fsm, h, cmd) ==
    IF cmd.k = "DataEnd"
    THEN LET res == IF self.has_error THEN EMPTY_RESPONSE ELSE h.resp
             calls == IF self.has_error THEN <<>> ELSE <<Call("data_end", <<>>)>>
         IN Out(res, transform_state(self, res, Hello(self.domain)), fsm, calls)
    ELSE unhandled(self, fsm)

RECURSIVE Unstuff_every_dot(_)
\* dot-unstuffing that strips every leading dot, not one
Unstuff_every_dot(line) ==
    IF Len(line) > 0 /\ Head(line) = "." THEN Unstuff_every_dot(Tail(line))
    ELSE line

\* the dot-unstuffing of Data::process_line
Unstuff(line) ==
    IF Len(line) > 0 /\ Head(line) = "." THEN Tail(line) ELSE line

\* the outcome of State::process_line: a command or a response, the phase
\* object afterwards, and the handler callbacks made
Lined(either, self, calls) == [either |-> either, self |-> self, calls |-> calls]

\* Data::process_line that keeps writing after a failed write
DataProcessLine_keeps_writing(self, h, line) ==
    IF Bytes(line) = <<".", CR, LF>> THEN Lined(Left(DataEnd), self, <<>>)
    ELSE LET calls == <<Call("data", Unstuff(Bytes(line)))>>
         IN IF h.data_ok
            THEN Lined(Right(EMPTY_RESPONSE), self, calls)
            ELSE Lined(Right(TRANSACTION_FAILED), [self EXCEPT !.has_error = TRUE],
                       calls)

\* Data::process_line
DataProcessLine(self, h, line) ==
    IF Bytes(line) = <<".", CR, LF>> THEN Lined(Left(DataEnd), self, <<>>)
    ELSE IF self.has_error THEN Lined(Right(EMPTY_RESPONSE), self, <<>>)
    ELSE LET calls == <<Call("data", Unstuff(Bytes(line)))>>
         IN IF h.data_ok
            THEN Lined(Right(EMPTY_RESPONSE), self, calls)
            ELSE Lined(Right(TRANSACTION_FAILED), [self EXCEPT !.has_error = TRUE],
                       calls)

\* Auth::process_line
AuthProcessLine(self, h, line) == Lined(ParseAuthResponse(line), self, <<>>)

\* State::process_line, the default implementation
StateProcessLine(self, h, line) == Lined(Parse(line), self, <<>>)

-----------------------------------------------------------------------------
(* The MIME event parser *)

StartsWith(buf, prefix) ==
    Len(buf) >= Len(prefix) /\ SubSeq(buf, 1, Len(prefix)) = prefix

EndsWith(buf, suffix) ==
    Len(buf) >= Len(suffix)
    /\ SubSeq(buf, Len(buf) - Len(suffix) + 1, Len(buf)) = suffix

\* the lines written to the parser. A header name with its colon, a mime
\* type and ";boundary=" are one unit each, everything else is one byte a
\* unit; lengths and offsets count units.
BlankLine == <<CR, LF>>
SubjectLine == <<"Subject:", "a", CR, LF>>
TextTypeLine == <<"Content-Type:", "text/plain", CR, LF>>
MixedTypeLine == <<"Content-Type:", "multipart/mixed", ";boundary=", "X", CR, LF>>
AlternativeTypeLine ==
    <<"Content-Type:", "multipart/alternative", ";boundary=", "Y", CR, LF>>
ContinuationLine == <<" ", "a", CR, LF>>
TextLine == <<"a", CR, LF>>
OpenLine(b) == <<"-", "-", b, CR, LF>>
CloseLine(b) == <<"-", "-", b, "-", "-", CR, LF>>

MimeLines ==
    {BlankLine, SubjectLine, TextTypeLine, MixedTypeLine, AlternativeTypeLine,
     ContinuationLine, TextLine, OpenLine("X"), CloseLine("X"), OpenLine("Y"),
     CloseLine("Y")}

\* Result<T, Response>
Ok(v) == [ok |-> TRUE, v |-> v]
Err == [ok |-> FALSE]

\* line_parser::header: the header a logical line holds, or an error
header(buf) ==
    IF Len(buf) >= 2 /\ buf[1] = "Subject:"
    THEN Ok([name |-> "Subject", value |-> SubSeq(buf, 2, Len(buf) - 2)])
    ELSE IF Len(buf) >= 2 /\ buf[1] = "Content-Type:"
    THEN Ok([name |-> "Content-Type", mime_type |-> buf[2],
             parameters |-> IF Len(buf) >= 4 /\ buf[3] = ";boundary="
                            THEN Some(<<buf[4]>>) ELSE None])
    ELSE Err

\* event::mime_type
mime_type(mtype) ==
    CASE mtype = "multipart/mixed" -> [t |-> "Multipart", kind |-> "Mixed"]
      [] mtype = "multipart/alternative" -> [t |-> "Multipart", kind |-> "Alternative"]
      [] OTHER -> [t |-> "Type", v |-> mtype]

\* enum Event
EvStart == [e |-> "Start"]
EvHeader(token) == [e |-> "Header", header |-> token]
EvMultipartStart(kind) == [e |-> "MultipartStart", kind |-> kind]
EvPartStart(offset) == [e |-> "PartStart", offset |-> offset]
EvBodyStart(offset) == [e |-> "BodyStart", offset |-> offset]
EvBody(buf) == [e |-> "Body", data |-> buf]
EvPartEnd(offset) == [e |-> "PartEnd", offset |-> offset]
EvMultipartEnd == [e |-> "MultipartEnd"]
EvEnd == [e |-> "End"]

\* self.handler.event(ev)
Emit(self, ev) == [self EXCEPT !.handler = Append(@, ev)]

\* HeaderBuffer::take: the buffered logical line, if any, leaves the buffer
take(header_buffer) == [buffer |-> None, out |-> header_buffer]

\* HeaderBuffer::next_line: a line that begins with whitespace is joined to
\* the buffered one; any other line takes its place and releases it
next_line(header_buffer, buf) ==
    IF buf[1] = " "
    THEN IF header_buffer = None
         THEN [buffer |-> Some([line |-> buf, length |-> Len(buf)]), out |-> None]
         ELSE LET held == Head(header_buffer)
              IN [buffer |->
                     Some([line |-> SubSeq(held.line, 1, Len(held.line) - 2) \o buf,
                           length |-> held.length + Len(buf)]),
                  out |-> None]
    ELSE [buffer |-> Some([line |-> buf, length |-> Len(buf)]),
          out |-> header_buffer]

\* EventParser::new
EventParserNew ==
    [state |-> "Start", offset |-> 0, handler |-> <<>>,
     content_type |-> [t |-> "Type", v |-> "text/plain"], boundary |-> None,
     multipart_stack |-> <<>>, header_buffer |-> None]

\* a close test that looks at the start of the line only: every boundary
\* line would close the multipart
is_close_boundary_by_prefix(self, buf) ==
    self.boundary # None /\ StartsWith(buf, Head(self.boundary))

\* EventParser::is_open_boundary
is_open_boundary(self, buf) ==
    self.boundary # None /\ StartsWith(buf, Head(self.boundary))

\* EventParser::is_close_boundary
is_close_boundary(self, buf) ==
    /\ self.boundary # None
    /\ StartsWith(buf, Head(self.boundary))
    /\ Len(buf) > Len(Head(self.boundary)) + 2
    /\ EndsWith(buf, <<"-", "-", CR, LF>>)

\* EventParser::content_type
content_type(self, mtype, params) ==
    LET pushed ==
            IF self.content_type.t = "Multipart" /\ self.boundary # None
            THEN Append(self.multipart_stack,
                        [content_type |-> self.content_type.kind,
                         boundary |-> Head(self.boundary)])
            ELSE self.multipart_stack
        mime == mime_type(mtype)
    IN [self EXCEPT
           !.multipart_stack = pushed,
           !.content_type = mime,
           !.boundary = IF mime.t = "Multipart"
                        THEN IF params = None THEN None
                             ELSE Some(<<"-", "-">> \o Head(params))
                        ELSE @]

\* the outcome of a parser step: the parser afterwards and Ok, Err or
\* Unreachable (the unreachable!() arm was executed)
Parsed(self, res) == [self |-> self, res |-> res]

\* EventParser::header_field: as Parsed, with the state it returns
header_field(self, buf, state) ==
    IF StartsWith(buf, <<CR, LF>>)
    THEN IF state = "MultipartHeader"
         THEN Parsed([self EXCEPT !.state = "MultipartPreamble"], "Ok")
                 @@ [state |-> "MultipartPreamble"]
         ELSE Parsed([Emit(self, EvBodyStart(self.offset + 2))
                         EXCEPT !.state = "Body"], "Ok")
                 @@ [state |-> "Body"]
    ELSE LET token == header(buf)
         IN IF ~token.ok THEN Parsed(self, "Err") @@ [state |-> state]
            ELSE LET typed == IF token.v.name = "Content-Type"
                              THEN content_type(self, token.v.mime_type,
                                                token.v.parameters)
                              ELSE self
                     after == Emit(typed, EvHeader(token.v))
                 IN Parsed(after, "Ok")
                       @@ [state |-> IF after.content_type.t = "Multipart"
                                     THEN "MultipartHeader" ELSE state]

\* EventParser::handle_line
handle_line(self, buf, buf_len) ==
    LET arm ==
          CASE self.state = "Start" -> Parsed(self, "Unreachable") @@ [state |-> "Start"]
            [] self.state = "MultipartHeader" ->
                  header_field(self, buf, "MultipartHeader")
            [] self.state = "Header" -> header_field(self, buf, "Header")
            [] self.state = "PartStart" ->
                  header_field(Emit(self, EvPartStart(self.offset)), buf, "Header")
            [] self.state = "MultipartPreamble" ->
                  IF is_open_boundary(self, buf)
                  THEN Parsed(IF self.content_type.t = "Multipart"
                              THEN Emit(self, EvMultipartStart(self.content_type.kind))
                              ELSE self, "Ok") @@ [state |-> "PartStart"]
                  ELSE Parsed(self, "Ok") @@ [state |-> "MultipartPreamble"]
            [] self.state = "Body" ->
                  IF is_close_boundary(self, buf)
                  THEN LET closed == Emit(Emit(self, EvPartEnd(self.offset)),
                                          EvMultipartEnd)
                           stack == closed.multipart_stack
                           popped ==
                               IF stack # <<>>
                               THEN [closed EXCEPT
                                       !.multipart_stack = SubSeq(stack, 1, Len(stack) - 1),
                                       !.content_type =
                                           [t |-> "Multipart",
                                            kind |-> stack[Len(stack)].content_type],
                                       !.boundary = Some(stack[Len(stack)].boundary)]
                               ELSE closed
                       IN Parsed(popped, "Ok") @@ [state |-> "Header"]
                  ELSE IF is_open_boundary(self, buf)
                  THEN Parsed(Emit(self, EvPartEnd(self.offset)), "Ok")
                          @@ [state |-> "PartStart"]
                  ELSE Parsed(Emit(self, EvBody(buf)), "Ok") @@ [state |-> "Body"]
    IN IF arm.res = "Ok"
       THEN Parsed([arm.self EXCEPT !.state = arm.state, !.offset = @ + buf_len],
                   "Ok")
       ELSE Parsed(arm.self, arm.res)

\* EventParser::handle_header
handle_header(self, buf) ==
    IF StartsWith(buf, <<CR, LF>>)
    THEN LET taken == take(self.header_buffer)
             emptied == [self EXCEPT !.header_buffer = taken.buffer]
             first == IF taken.out # None
                      THEN handle_line(emptied, Head(taken.out).line,
                                       Head(taken.out).length)
                      ELSE Parsed(emptied, "Ok")
         IN IF first.res # "Ok" THEN first
            ELSE handle_line(first.self, buf, Len(buf))
    ELSE LET next == next_line(self.header_buffer, buf)
             held == [self EXCEPT !.header_buffer = next.buffer]
         IN IF next.out # None
            THEN handle_line(held, Head(next.out).line, Head(next.out).length)
            ELSE Parsed(held, "Ok")

\* a handle_write that emits Start and leaves the state as it is
handle_write_keeps_start(self, buf) ==
    CASE self.state \in {"Start", "Header", "MultipartHeader", "PartStart"} ->
            handle_header(IF self.state = "Start" THEN Emit(self, EvStart)
                          ELSE self, buf)
      [] OTHER -> handle_line(self, buf, Len(buf))

\* EventParser::handle_write
handle_write(self, buf) ==
    CASE self.state = "Start" ->
            handle_header([Emit(self, EvStart) EXCEPT !.state = "Header"], buf)
      [] self.state \in {"Header", "MultipartHeader", "PartStart"} ->
            handle_header(self, buf)
      [] OTHER -> handle_line(self, buf, Len(buf))

\* no line of the message written yet
NoMessage == [at |-> "top", top |-> <<>>, parts |-> <<>>, epilogue |-> <<>>]

-----------------------------------------------------------------------------
(* The mail store *)

\* an AtomicU32 holds two 16-bit halves
HalfWord == 65536

U32(hi, lo) == [hi |-> hi, lo |-> lo]

\* AtomicU32::new(0)
Zero == U32(0, 0)

\* the value of the counter after 2^32 - 2 fetch_add calls
AlmostRound == U32(HalfWord - 1, HalfWord - 2)

\* what AtomicU32::fetch_add(1, _) leaves in the cell: one more, wrapping
\* around on overflow
wrapping_add_one(v) ==
    IF v.lo + 1 < HalfWord THEN U32(v.hi, v.lo + 1)
    ELSE U32((v.hi + 1) % HalfWord, 0)

\* the file name message_file builds: milliseconds, process id, count
Filename(ms, count) == [ms |-> ms, pid |-> "pid", count |-> count]

\* what SystemTime::now() may show: the same millisecond again, or another
Millis == {0, 1}

\* struct MailStore: counter is the cell its Arc points to
MailStore(counter, state) == [dir |-> "maildir", counter |-> counter, state |-> state]

\* a thread between two messages
Resting == [pc |-> "idle", ms |-> 0, count |-> Zero]

\* MailStore::new: one store, its counter at 0, an empty maildir
MailStoreNew ==
    /\ counters = <<Zero>>
    /\ stores = <<MailStore(1, None)>>
    /\ threads = <<Resting>>
    /\ names = <<>>
    /\ wrapped = FALSE
    /\ tmp = {}
    /\ new = {}
    /\ overwritten = FALSE

\* the store of a process that has delivered 2^32 - 2 messages, the first
\* of which is remembered
MailStoreAged ==
    /\ counters = <<AlmostRound>>
    /\ stores = <<MailStore(1, None)>>
    /\ threads = <<Resting>>
    /\ names = <<Filename(0, Zero)>>
    /\ wrapped = FALSE
    /\ tmp = {}
    /\ new = {Filename(0, Zero)}
    /\ overwritten = FALSE

\* a clone that allocates a counter of its own
clone_own_counter(self, cells) ==
    [store |-> MailStore(Len(cells) + 1, None), counters |-> Append(cells, Zero)]

\* impl Clone for MailStore: the Arc is cloned, the cell is shared
clone(self, cells) ==
    [store |-> MailStore(self.counter, None), counters |-> cells]

-----------------------------------------------------------------------------
(* The state machine *)

\* the StateMachine's capability fields, as the phase handlers read them
Fsm ==
    [auth_state |-> auth_state, tls |-> tls, auth_plain |-> auth_plain,
     auth_login |-> auth_login, auth_mechanisms |-> auth_mechanisms,
     insecure_allow_plaintext_auth |-> insecure_allow_plaintext_auth]

\* what the handler answers when a step calls it: a response, and for
\* handler.data whether the write succeeds
Oracles ==
    {[resp |-> r, data_ok |-> TRUE] : r \in HandlerResponses}
    \cup {[resp |-> OK, data_ok |-> FALSE]}

\* the answer of a handler that is not asked
NoOracle == [resp |-> OK, data_ok |-> TRUE]

\* dyn State::handle
Handle(self, fsm, h, cmd) ==
    CASE self.id = "Idle" -> IdleHandle(self, fsm, h, cmd)
      [] self.id = "Hello" -> HelloHandle(self, fsm, h, cmd)
      [] self.id = "HelloAuth" -> HelloAuthHandle(self, fsm, h, cmd)
      [] self.id = "Auth" -> AuthHandle(self, fsm, h, cmd)
      [] self.id = "Mail" -> MailHandle(self, fsm, h, cmd)
      [] self.id = "Rcpt" -> RcptHandle(self, fsm, h, cmd)
      [] self.id = "Data" -> DataHandle(self, fsm, h, cmd)

\* StateMachine::command
Command(state, fsm, h, cmd) ==
    IF state.id = "Invalid" THEN Out(INVALID_STATE, NoState, fsm, <<>>)
    ELSE Handle(state, fsm, h, cmd)

\* process_line that hands the line to the parser when there is no state
ProcessLine_parses_without_state(state, h, line) ==
    CASE state.id = "Data" -> DataProcessLine(state, h, line)
      [] state.id = "Auth" -> AuthProcessLine(state, h, line)
      [] OTHER -> StateProcessLine(state, h, line)

\* StateMachine::process_line
ProcessLine(state, h, line) ==
    CASE state.id = "Invalid" -> Lined(Right(INVALID_STATE), state, <<>>)
      [] state.id = "Data" -> DataProcessLine(state, h, line)
      [] state.id = "Auth" -> AuthProcessLine(state, h, line)
      [] OTHER -> StateProcessLine(state, h, line)

\* one input line through process_line and, when it yields a command, command
Processed(state, fsm, h, line) ==
    LET p == ProcessLine(state, h, line)
    IN IF p.either.side = "Left"
       THEN LET o == Command(p.self, fsm, h, p.either.cmd)
            IN [o EXCEPT !.calls = p.calls \o o.calls] @@ [cmd |-> p.either.cmd]
       ELSE Out(p.either.res, p.self, fsm, p.calls) @@ [cmd |-> [k |-> "none"]]

\* the answers that matter to a step: all of them when it calls the handler
OraclesFor(state, fsm, line) ==
    IF Processed(state, fsm, NoOracle, line).calls = <<>> THEN {NoOracle}
    ELSE Oracles

HasCall(calls, f) == \E i \in 1..Len(calls) : calls[i].f = f

\* the data_end counter: reset by a successful data_start, bumped by data_end
EndsAfter(n, o) ==
    IF HasCall(o.calls, "data_start") /\ ~o.res.is_error THEN 0
    ELSE IF HasCall(o.calls, "data_end") /\ n < MaxEnds THEN n + 1
    ELSE n

\* whether the client still owes a HELO/EHLO after STARTTLS
RehelloAfter(b, o) ==
    IF o.res.action = "UpgradeTls" THEN TRUE
    ELSE IF HasCall(o.calls, "helo") /\ ~o.res.is_error /\ o.res.action # "Close"
    THEN FALSE
    ELSE b

\* nothing accepted yet: no HELO domain, no MAIL, no RCPT
NoEnvelope == [domain |-> None, mail |-> None, rcpts |-> <<>>]

\* the accepted transaction, told from the handler's answers alone: a HELO
\* or EHLO it accepts sets the domain and discards the transaction, RSET
\* discards the transaction, an accepted MAIL opens one, an accepted RCPT
\* adds its path, an accepted data_start consumes it, STARTTLS discards all
EnvAfter(e, o) ==
    IF o.res.action = "UpgradeTls" THEN NoEnvelope
    ELSE IF o.res.is_error THEN e
    ELSE IF HasCall(o.calls, "helo")
    THEN [domain |-> Some(o.cmd.domain), mail |-> None, rcpts |-> <<>>]
    ELSE IF o.cmd.k = "Rset" THEN [e EXCEPT !.mail = None, !.rcpts = <<>>]
    ELSE IF HasCall(o.calls, "mail")
    THEN [e EXCEPT !.mail = Some(<<o.cmd.reverse_path, o.cmd.is8bit>>),
                   !.rcpts = <<>>]
    ELSE IF HasCall(o.calls, "rcpt")
    THEN [e EXCEPT !.rcpts = Append(@, o.cmd.forward_path)]
    ELSE IF HasCall(o.calls, "data_start")
    THEN [e EXCEPT !.mail = None, !.rcpts = <<>>]
    ELSE e

\* the observation a step leaves behind
Observed(input, o) ==
    [pre |-> smtp, pre_auth |-> auth_state, pre_tls |-> tls, input |-> input,
     cmd |-> o.cmd, res |-> o.res, calls |-> o.calls]

Configs == {<<>>, <<"PLAIN">>, <<"LOGIN">>, <<"PLAIN", "LOGIN">>}

\* StateMachine::new, beside a parser and a message not yet begun
SessionNew ==
    /\ auth_mechanisms \in Configs
    /\ \E allow_start_tls \in BOOLEAN :
          tls = IF allow_start_tls THEN "Inactive" ELSE "Unavailable"
    /\ insecure_allow_plaintext_auth \in BOOLEAN
    /\ auth_state = IF auth_mechanisms = <<>> THEN "Unavailable" ELSE "RequiresAuth"
    /\ auth_plain = (\E i \in 1..Len(auth_mechanisms) : auth_mechanisms[i] = "PLAIN")
    /\ auth_login = (\E i \in 1..Len(auth_mechanisms) : auth_mechanisms[i] = "LOGIN")
    /\ smtp = Idle
    /\ last = [pre |-> Idle, pre_auth |-> auth_state, pre_tls |-> tls,
               input |-> [k |-> "none"], cmd |-> [k |-> "none"],
               res |-> EMPTY_RESPONSE, calls |-> <<>>]
    /\ ends = 0
    /\ rehello = FALSE
    /\ env = NoEnvelope
    /\ parser = EventParserNew
    /\ result = "Ok"
    /\ written = 0
    /\ ended = FALSE
    /\ message = NoMessage

\* a new session, beside a new mail store
Init == SessionNew /\ MailStoreNew

\* the transport is being upgraded: the driver reads no line until it is done
Upgrading == last.res.action = "UpgradeTls"

Step(input, o) ==
    /\ smtp' = o.next
    /\ auth_state' = o.auth_state
    /\ tls' = o.tls
    /\ last' = Observed(input, o)
    /\ rehello' = RehelloAfter(rehello, o)
    /\ UNCHANGED <<auth_plain, auth_login, auth_mechanisms,
                   insecure_allow_plaintext_auth>>
    /\ UNCHANGED <<mime_vars, store_vars>>

\* Session::process: one line read from the client
Process(line, h) ==
    /\ ~Upgrading
    /\ ~(smtp.id = "Rcpt" /\ Len(smtp.forward_path) >= MaxRcpt
         /\ line.k = "cmd" /\ line.cmd.k = "Rcpt")
    /\ Step(line, Processed(smtp, Fsm, h, line))

\* Session::tls_active: the handshake is done, the driver reports it
TlsActive ==
    /\ Upgrading
    /\ LET o == Command(smtp, Fsm, NoOracle, StartedTls)
       IN Step([k |-> "tls"], o @@ [cmd |-> StartedTls])

Next ==
    \/ \E line \in Lines : \E h \in OraclesFor(smtp, Fsm, line) :
          Process(line, h) /\ UNCHANGED <<ends, env>>
    \/ TlsActive /\ UNCHANGED <<ends, env>>

Spec == Init /\ [][Next]_vars

\* the same steps, with the data_end calls of each transaction counted
ProcessCounted(line, h) ==
    /\ Process(line, h)
    /\ ends' = EndsAfter(ends, Processed(smtp, Fsm, h, line))
    /\ UNCHANGED env

NextCounted ==
    \/ \E line \in Lines : \E h \in OraclesFor(smtp, Fsm, line) :
          ProcessCounted(line, h)
    \/ TlsActive /\ UNCHANGED <<ends, env>>

SpecCounted == Init /\ [][NextCounted]_vars

\* the same steps, with the accepted transaction recorded
ProcessRecorded(line, h) ==
    /\ Process(line, h)
    /\ env' = EnvAfter(env, Processed(smtp, Fsm, h, line))
    /\ UNCHANGED ends

TlsActiveRecorded ==
    /\ TlsActive
    /\ env' = EnvAfter(env, Command(smtp, Fsm, NoOracle, StartedTls)
                             @@ [cmd |-> StartedTls])
    /\ UNCHANGED ends

NextEnvelope ==
    \/ \E line \in Lines : \E h \in OraclesFor(smtp, Fsm, line) :
          ProcessRecorded(line, h)
    \/ TlsActiveRecorded

SpecEnvelope == Init /\ [][NextEnvelope]_vars

-----------------------------------------------------------------------------
(* The MIME event parser at work *)

smtp_vars == <<smtp, auth_state, tls, auth_plain, auth_login, auth_mechanisms,
               insecure_allow_plaintext_auth, last, ends, rehello, env>>

\* a new parser, beside a session without STARTTLS and AUTH to offer
InitMime ==
    /\ Init
    /\ auth_mechanisms = <<>>
    /\ tls = "Unavailable"
    /\ ~insecure_allow_plaintext_auth

\* EventParser::data
ParserData(buf) ==
    /\ ~ended
    /\ written < MaxData
    /\ LET wrote == handle_write(parser, buf)
       IN parser' = wrote.self /\ result' = wrote.res
    /\ written' = written + 1
    /\ UNCHANGED <<ended, message, smtp_vars, store_vars>>

\* EventParser::end
ParserEnd ==
    /\ ~ended
    /\ parser' = Emit(parser, EvEnd)
    /\ ended' = TRUE
    /\ UNCHANGED <<result, written, message, smtp_vars, store_vars>>

NextMime ==
    \/ \E buf \in MimeLines : ParserData(buf)
    \/ ParserEnd

SpecMime == InitMime /\ [][NextMime]_vars

-----------------------------------------------------------------------------
(* The MIME event parser fed a message *)

\* one line of the message goes to EventParser::data
Write(buf) ==
    /\ ~ended
    /\ LET wrote == handle_write(parser, buf)
       IN parser' = wrote.self /\ result' = wrote.res
    /\ written' = written + 1
    /\ UNCHANGED <<ended, smtp_vars, store_vars>>

IsMultipart(m) == \E i \in 1..Len(m.top) : m.top[i] = MixedTypeLine

\* the i-th body line of a part: the lines of a body differ from their
\* neighbours, so that their order shows
BodyLineAt(i) == IF i % 2 = 1 THEN TextLine ELSE ContinuationLine

\* a header of the message: an optional Subject, then an optional
\* Content-Type, multipart/mixed with boundary X or text/plain
WriteTopHeader(h) ==
    /\ message.at = "top"
    /\ \/ h = SubjectLine /\ message.top = <<>>
       \/ h \in {TextTypeLine, MixedTypeLine}
          /\ message.top \in {<<>>, <<SubjectLine>>}
    /\ message' = [message EXCEPT !.top = Append(@, h)]

\* the blank line after the message's headers
WriteTopBlank(buf) ==
    /\ message.at = "top"
    /\ buf = BlankLine
    /\ message' =
          IF IsMultipart(message) THEN [message EXCEPT !.at = "preamble"]
          ELSE [message EXCEPT !.at = "body",
                               !.parts = <<[headers |-> <<>>, body |-> <<>>]>>]

\* the open boundary line --X: the first part, or the next one
WriteOpen(buf) ==
    /\ IsMultipart(message)
    /\ message.at \in {"preamble", "body"}
    /\ Len(message.parts) < MaxParts
    /\ buf = OpenLine("X")
    /\ message' = [message EXCEPT
                      !.at = "part",
                      !.parts = Append(@, [headers |-> <<>>, body |-> <<>>])]

\* the header of a part, if it has one: a Subject or a text/plain Content-Type
WritePartHeader(h) ==
    /\ message.at = "part"
    /\ message.parts[Len(message.parts)].headers = <<>>
    /\ h \in {SubjectLine, TextTypeLine}
    /\ message' = [message EXCEPT !.parts[Len(message.parts)].headers = <<h>>]

\* the blank line after a part's headers
WritePartBlank(buf) ==
    /\ message.at = "part"
    /\ buf = BlankLine
    /\ message' = [message EXCEPT !.at = "body"]

\* one more line of the body
WriteBody(buf) ==
    /\ message.at = "body"
    /\ LET n == Len(message.parts)
       IN /\ Len(message.parts[n].body) < MaxBody
          /\ buf = BodyLineAt(Len(message.parts[n].body) + 1)
          /\ message' = [message EXCEPT !.parts[n].body = Append(@, buf)]

\* the close boundary line --X--
WriteClose(buf) ==
    /\ IsMultipart(message)
    /\ message.at = "body"
    /\ buf = CloseLine("X")
    /\ message' = [message EXCEPT !.at = "closed"]

\* a line after the close boundary: blank, or the close boundary once more
WriteEpilogue(buf) ==
    /\ message.at = "closed"
    /\ Len(message.epilogue) < MaxEpilogue
    /\ buf \in {BlankLine, CloseLine("X")}
    /\ message' = [message EXCEPT !.epilogue = Append(@, buf)]

\* the next line of the message goes to the parser
WriteMessage(buf) ==
    /\ Write(buf)
    /\ \/ WriteTopHeader(buf)
       \/ WriteTopBlank(buf)
       \/ WriteOpen(buf)
       \/ WritePartHeader(buf)
       \/ WritePartBlank(buf)
       \/ WriteBody(buf)
       \/ WriteClose(buf)
       \/ WriteEpilogue(buf)

\* EventParser::end: the message stops here, complete or truncated
WriteEnd == ParserEnd

NextMessage ==
    \/ \E buf \in MimeLines : WriteMessage(buf)
    \/ WriteEnd

SpecMessage == InitMime /\ [][NextMessage]_vars

-----------------------------------------------------------------------------
(* The mail store shared by concurrent sessions *)

\* a new or an aged store, beside a session without STARTTLS and AUTH to offer
InitStore ==
    /\ SessionNew
    /\ auth_mechanisms = <<>>
    /\ tls = "Unavailable"
    /\ ~insecure_allow_plaintext_auth
    /\ MailStoreNew \/ MailStoreAged

\* the message_file calls made or under way
Started ==
    Len(names) + Cardinality({i \in 1..Len(threads) : threads[i].pc = "count"})

\* a session is given a clone of store i
Clone(i) ==
    /\ Len(stores) < MaxStores
    /\ LET cloned == clone(stores[i], counters)
       IN /\ stores' = Append(stores, cloned.store)
          /\ counters' = cloned.counters
    /\ threads' = Append(threads, Resting)
    /\ UNCHANGED <<names, wrapped, tmp, new, overwritten, smtp_vars, mime_vars>>

\* data_start -> start_message -> message_file, up to the clock reading
Now(i, ms) ==
    /\ threads[i].pc = "idle"
    /\ Started < MaxMessages
    /\ threads' = [threads EXCEPT ![i] = [pc |-> "count", ms |-> ms, count |-> Zero]]
    /\ UNCHANGED <<counters, stores, names, wrapped, tmp, new, overwritten,
                   smtp_vars, mime_vars>>

\* message_file: self.counter.fetch_add(1, Ordering::Relaxed), one atomic
\* read-modify-write of the cell, and the file name returned
FetchAdd(i) ==
    /\ threads[i].pc = "count"
    /\ LET cell == stores[i].counter
           count == counters[cell]
       IN /\ counters' = [counters EXCEPT ![cell] = wrapping_add_one(count)]
          /\ wrapped' = (wrapped \/ wrapping_add_one(count) = Zero)
          /\ names' = Append(names, Filename(threads[i].ms, count))
          /\ threads' = [threads EXCEPT ![i].pc = "create", ![i].count = count]
    /\ UNCHANGED <<stores, tmp, new, overwritten, smtp_vars, mime_vars>>

\* start_message: File::create(<dir>/tmp/<name>) truncates a file that is
\* there; the store keeps the path
Create(i) ==
    /\ threads[i].pc = "create"
    /\ LET path == Filename(threads[i].ms, threads[i].count)
       IN /\ overwritten' = (overwritten \/ path \in tmp)
          /\ tmp' = tmp \cup {path}
          /\ stores' = [stores EXCEPT ![i].state = Some(path)]
    /\ threads' = [threads EXCEPT ![i].pc = "open"]
    /\ UNCHANGED <<counters, names, wrapped, new, smtp_vars, mime_vars>>

\* data_end -> end_message -> commit_message: the file moves from tmp to new
EndMessage(i) ==
    /\ threads[i].pc = "open"
    /\ LET path == Head(stores[i].state)
       IN /\ tmp' = tmp \ {path}
          /\ new' = new \cup {path}
    /\ stores' = [stores EXCEPT ![i].state = None]
    /\ threads' = [threads EXCEPT ![i] = Resting]
    /\ UNCHANGED <<counters, names, wrapped, overwritten, smtp_vars, mime_vars>>

NextStore ==
    \E i \in 1..Len(stores) :
        \/ Clone(i)
        \/ \E ms \in Millis : Now(i, ms)
        \/ FetchAdd(i)
        \/ Create(i)
        \/ EndMessage(i)

SpecStore == InitStore /\ [][NextStore]_vars

-----------------------------------------------------------------------------
(* Properties *)

\* the latest observation is of a step, not of construction
Stepped == last.input.k # "none"

\* the phase and the envelope fields it carries (has_error is no envelope field)
Envelope(state) ==
    IF state.id = "Data" THEN [id |-> state.id, domain |-> state.domain] ELSE state

SamePhase(a, b) == a.id = b.id /\ Envelope(a) = Envelope(b)

ErrorReply == Stepped /\ last.res.is_error /\ last.res.action # "Close"

AuthCalled == HasCall(last.calls, "auth_plain") \/ HasCall(last.calls, "auth_login")

\* C1 as stated: a response with is_error that is not a Close leaves the
\* phase and its envelope fields as they were, in every phase, the Auth
\* phase with an error from handler.auth_plain / auth_login included.
C1_ErrorNeverChangesPhase ==
    ErrorReply => SamePhase(last.pre, smtp)

\* C1 amended: a response with is_error that is not a Close leaves the phase
\* and its envelope fields as they were, except that an error returned by
\* handler.auth_plain / auth_login in the Auth phase ends the SASL exchange:
\* the session is then in HelloAuth with the same HELO domain. (The Data
\* phase stays Data with its domain; its has_error flag is set exactly by the
\* 554 that answers a failed handler.data.)
C1_ErrorKeepsPhaseExceptAuthFailure ==
    ErrorReply =>
        IF last.pre.id = "Auth" /\ AuthCalled
        THEN smtp = HelloAuth(last.pre.domain)
        ELSE /\ SamePhase(last.pre, smtp)
             /\ last.pre.id = "Data" =>
                   smtp.has_error = (last.pre.has_error \/ HasCall(last.calls, "data"))

\* a handler rejected a second RCPT: the Rcpt phase keeps its envelope
C1_Witness ==
    /\ ErrorReply
    /\ last.pre.id = "Rcpt"
    /\ HasCall(last.calls, "rcpt")
    /\ smtp.id = "Rcpt"
    /\ Len(smtp.forward_path) = 1

\* C2: a response with action Close, whichever phase and callback it comes
\* from, leaves the automaton without a state.
C2_CloseTerminates ==
    (Stepped /\ last.res.action = "Close") => smtp.id = "Invalid"


AuthCmds == {"AuthPlain", "AuthPlainEmpty", "AuthLogin", "AuthLoginEmpty"}

\* the gate as it stood when the latest step began
GateWasOpen == last.pre_tls = "Active" \/ insecure_allow_plaintext_auth

\* C3: handler.auth_plain / auth_login are invoked, and the Auth phase is
\* occupied, only with TlsState=Active or insecure_allow_plaintext_auth, and
\* only for a configured mechanism; with the gate closed every AUTH command in
\* HelloAuth is answered 503 with no handler call and no phase change.
C3_AuthorizationGate ==
    /\ HasCall(last.calls, "auth_plain") => GateWasOpen /\ auth_plain
    /\ HasCall(last.calls, "auth_login") => GateWasOpen /\ auth_login
    /\ smtp.id = "Auth" =>
          /\ tls = "Active" \/ insecure_allow_plaintext_auth
          /\ smtp.mechanism = "PLAIN" => auth_plain
          /\ smtp.mechanism = "LOGIN" => auth_login
    /\ (last.pre.id = "HelloAuth" /\ last.cmd.k \in AuthCmds /\ ~GateWasOpen) =>
          /\ last.res.code = 503
          /\ last.calls = <<>>
          /\ smtp = last.pre
          /\ auth_state = last.pre_auth

\* AUTH PLAIN is configured and TLS is on offer but not active: AUTH is refused
C3_Witness ==
    /\ last.pre.id = "HelloAuth"
    /\ last.cmd.k = "AuthPlain"
    /\ auth_plain
    /\ last.pre_tls = "Inactive"
    /\ ~insecure_allow_plaintext_auth
    /\ last.res.code = 503
    /\ smtp.id = "HelloAuth"

\* C4: the session leaves HelloAuth or Auth for Hello only on a 235 from the
\* handler, AuthState then being Authenticated; after any other auth response
\* it is in HelloAuth; so Hello, Mail, Rcpt and Data are never occupied with
\* AuthState=RequiresAuth and handler.mail is never invoked unauthenticated.
C4_OnlyCode235Authenticates ==
    /\ (AuthCalled /\ last.res.code = 235 /\ last.res.action # "Close") =>
          smtp.id = "Hello" /\ auth_state = "Authenticated"
    /\ (AuthCalled /\ last.res.code # 235 /\ last.res.action # "Close") =>
          smtp.id = "HelloAuth"
    /\ smtp.id \in {"Hello", "Mail", "Rcpt", "Data"} => auth_state # "RequiresAuth"
    /\ HasCall(last.calls, "mail") => last.pre_auth # "RequiresAuth"

\* C5: MAIL while AuthState=RequiresAuth in HelloAuth is answered 530, makes
\* no handler call and changes no phase.
C5_MailBeforeAuthIs530 ==
    (last.pre.id = "HelloAuth" /\ last.pre_auth = "RequiresAuth"
     /\ last.cmd.k = "Mail") =>
        /\ last.res.code = 530
        /\ last.calls = <<>>
        /\ smtp = last.pre

\* C6: once STARTTLS was accepted and the handshake reported (StartedTls),
\* the phase is Idle with no envelope and, when mechanisms are configured,
\* AuthState is RequiresAuth.
C6_StartTlsClearsAuth ==
    (Stepped /\ last.cmd.k = "StartedTls") =>
        /\ smtp = Idle
        /\ tls = "Active"
        /\ auth_mechanisms # <<>> => auth_state = "RequiresAuth"


\* C7: an accepted STARTTLS, from Hello or HelloAuth, leaves the phase Idle;
\* until a HELO/EHLO is accepted the session stays Idle (or is terminated),
\* and in Idle every MAIL, RCPT and DATA is answered 503 with no handler call.
C7_StartTlsNeedsNewHello ==
    /\ (Stepped /\ last.res.action = "UpgradeTls") =>
          /\ last.pre.id \in {"Hello", "HelloAuth"}
          /\ smtp = Idle
          /\ rehello
    /\ rehello => smtp.id \in {"Idle", "Invalid"}
    /\ (last.pre.id = "Idle" /\ last.cmd.k \in {"Mail", "Rcpt", "Data"}) =>
          /\ last.res.code = 503
          /\ last.calls = <<>>
          /\ smtp = Idle

\* after the upgrade a MAIL arrived before any HELO/EHLO and was refused
C7_Witness ==
    /\ rehello
    /\ tls = "Active"
    /\ last.pre.id = "Idle"
    /\ last.cmd.k = "Mail"
    /\ last.res.code = 503
    /\ smtp = Idle

\* C8: handler.data_end is invoked at most once per handler.data_start.
C8_DataEndAtMostOnce == ends <= 1

\* C9: when the session leaves Data for a phase other than termination,
\* handler.data_end has been invoked exactly once since data_start succeeded.
C9_DataEndBeforeLeavingData ==
    (Stepped /\ last.pre.id = "Data" /\ smtp.id \notin {"Data", "Invalid"}) =>
        ends = 1

\* the line as handler.data must receive it, stated from the wire format:
\* a line that begins with "." is "." followed by what is delivered
Delivered(line, got) ==
    IF Len(line) > 0 /\ line[1] = "." THEN line = <<".">> \o got ELSE got = line

\* C10: in Data, before any write error, a line other than ".\r\n" reaches
\* handler.data in one call, with one leading "." removed if it has one and
\* unchanged otherwise; ".\r\n" is not passed on and becomes DataEnd.
C10_DotUnstuffing ==
    (Stepped /\ last.pre.id = "Data") =>
        IF Bytes(last.input) = <<".", CR, LF>>
        THEN last.cmd = DataEnd /\ ~HasCall(last.calls, "data")
        ELSE ~last.pre.has_error =>
                /\ Len(last.calls) = 1
                /\ last.calls[1].f = "data"
                /\ Delivered(Bytes(last.input), last.calls[1].a)

\* the line "..\r\n" was delivered as ".\r\n"
C10_Witness ==
    /\ last.pre.id = "Data"
    /\ ~last.pre.has_error
    /\ Bytes(last.input) = <<".", ".", CR, LF>>
    /\ Len(last.calls) = 1
    /\ last.calls[1].a = <<".", CR, LF>>

\* C11: within one Data phase 554 (TRANSACTION_FAILED) is replied at most
\* once: it answers only a line written before any write error and sets
\* has_error, which the phase then keeps. After the error every data line
\* gets no reply and no handler.data call, and the terminating "." gets no
\* reply, makes no handler.data_end call and moves the session to Hello.
C11_DataPoisoning ==
    (Stepped /\ last.pre.id = "Data") =>
        /\ last.res = TRANSACTION_FAILED =>
              ~last.pre.has_error /\ smtp = Data(last.pre.domain, TRUE)
        /\ last.pre.has_error =>
              /\ last.res = EMPTY_RESPONSE
              /\ last.calls = <<>>
              /\ smtp = IF Bytes(last.input) = <<".", CR, LF>>
                        THEN Hello(last.pre.domain)
                        ELSE last.pre

\* after a failed write the terminating "." was read: no reply, no data_end
C11_Witness ==
    /\ last.pre.id = "Data"
    /\ last.pre.has_error
    /\ Bytes(last.input) = <<".", CR, LF>>
    /\ last.res = EMPTY_RESPONSE
    /\ last.calls = <<>>
    /\ smtp.id = "Hello"

QuitOrNoop ==
    Stepped /\ last.input.k = "cmd" /\ last.input.cmd.k \in {"Quit", "Noop"}

\* QUIT is answered GOODBYE and ends the session; NOOP is answered OK and
\* changes nothing
DefaultReply ==
    /\ last.calls = <<>>
    /\ auth_state = last.pre_auth
    /\ IF last.input.cmd.k = "Quit"
       THEN last.res = GOODBYE /\ smtp = NoState
       ELSE last.res = OK /\ smtp = last.pre

\* C12 as stated: in every non-terminated phase, Auth and Data included, a
\* QUIT is answered GOODBYE (221) and terminates the session and a NOOP is
\* answered OK (250) with the phase unchanged.
C12_QuitNoopInEveryPhase ==
    (QuitOrNoop /\ last.pre.id # "Invalid") => DefaultReply

\* C12 amended: in Idle, Hello, HelloAuth, Mail and Rcpt a QUIT is answered
\* GOODBYE (221) and terminates the session, and a NOOP is answered OK (250)
\* with the phase unchanged, neither calling the handler. Auth and Data do
\* not parse their input as commands: in Auth the line is taken as the SASL
\* response, in Data as message data (passed to handler.data unless a write
\* failed before), and the phase is still Data.
C12_QuitNoopWhereLinesAreCommands ==
    QuitOrNoop =>
        CASE last.pre.id \in {"Idle", "Hello", "HelloAuth", "Mail", "Rcpt"} ->
                last.cmd = last.input.cmd /\ DefaultReply
          [] last.pre.id = "Auth" -> last.cmd = AuthResponse("verb")
          [] last.pre.id = "Data" ->
                /\ last.cmd.k = "none"
                /\ last.res.code \in {0, 554}
                /\ HasCall(last.calls, "data") = ~last.pre.has_error
                /\ smtp.id = "Data"
          [] OTHER -> TRUE

\* NOOP between RCPT and DATA: answered OK, the envelope is kept
C12_Witness ==
    /\ QuitOrNoop
    /\ last.pre.id = "Rcpt"
    /\ last.cmd.k = "Noop"
    /\ last.res = OK
    /\ smtp = last.pre

\* the capability lines of a response
Offers(res, line) == \E i \in 1..Len(res.ext) : res.ext[i] = line

\* the AUTH line that names the mechanisms of a configuration
AuthLineFor(mechanisms) ==
    CASE mechanisms = <<"PLAIN">> -> "AUTH PLAIN"
      [] mechanisms = <<"LOGIN">> -> "AUTH LOGIN"
      [] mechanisms = <<"PLAIN", "LOGIN">> -> "AUTH PLAIN LOGIN"
      [] OTHER -> "AUTH"

AuthLines == {"AUTH", "AUTH PLAIN", "AUTH LOGIN", "AUTH PLAIN LOGIN",
              "AUTH LOGIN PLAIN"}

\* an EHLO the handler answered with code 250 (its 250 is always replaced by
\* the capability list, so the reply has code 250 exactly then)
EhloAccepted ==
    Stepped /\ last.cmd.k = "Ehlo" /\ HasCall(last.calls, "helo")
    /\ last.res.code = 250

\* C13: an EHLO for which handler.helo returns code 250 is answered with a
\* 250 capability list that always contains 8BITMIME, contains STARTTLS iff
\* TlsState=Inactive, and contains an AUTH line iff allow_auth() holds and
\* at least one mechanism is configured, that line naming exactly the
\* configured mechanisms.
C13_EhloCapabilities ==
    EhloAccepted =>
        /\ last.res.action = "Reply"
        /\ Offers(last.res, "8BITMIME")
        /\ Offers(last.res, "STARTTLS") <=> last.pre_tls = "Inactive"
        /\ (\E a \in AuthLines : Offers(last.res, a))
              <=> (GateWasOpen /\ auth_mechanisms # <<>>)
        /\ \A a \in AuthLines :
              Offers(last.res, a) => a = AuthLineFor(auth_mechanisms)
        /\ \A i \in 1..Len(last.res.ext) :
              last.res.ext[i] \in {"8BITMIME", "STARTTLS"} \cup AuthLines

\* both mechanisms configured, TLS on offer, plaintext auth allowed
C13_Witness ==
    /\ EhloAccepted
    /\ last.pre_tls = "Inactive"
    /\ last.res.ext = <<"8BITMIME", "STARTTLS", "AUTH PLAIN LOGIN">>

\* a SASL response arrived in the LOGIN exchange
LoginResponse ==
    Stepped /\ last.pre.id = "Auth" /\ last.pre.mechanism = "LOGIN"
    /\ last.cmd.k = "AuthResponse"

\* an AUTH LOGIN command arrived in HelloAuth with the mechanism allowed
LoginCommand(k) ==
    Stepped /\ last.pre.id = "HelloAuth" /\ last.cmd.k = k
    /\ GateWasOpen /\ auth_login

\* C14: AUTH LOGIN without argument is answered with the username challenge
\* and enters Auth; the first response is stored as the username, answered
\* with the password challenge, and the phase stays Auth with no handler
\* call; the second response is the password and handler.auth_login is
\* called exactly once with (first, second); on success (235) the phase is
\* Hello, on failure HelloAuth. AUTH LOGIN <username> uses that username and
\* the one following response is the password.
C14_LoginChoreography ==
    /\ LoginCommand("AuthLoginEmpty") =>
          /\ last.res = USERNAME_AUTH_CHALLENGE
          /\ last.calls = <<>>
          /\ smtp = Auth(last.pre.domain, "LOGIN", None)
    /\ LoginCommand("AuthLogin") =>
          /\ last.res = PASSWORD_AUTH_CHALLENGE
          /\ last.calls = <<>>
          /\ smtp = Auth(last.pre.domain, "LOGIN", Some(last.cmd.username))
    /\ (LoginResponse /\ last.pre.username = None) =>
          /\ last.res = PASSWORD_AUTH_CHALLENGE
          /\ last.calls = <<>>
          /\ smtp = Auth(last.pre.domain, "LOGIN",
                         Some(DecodeSaslLogin(last.cmd.response)))
    /\ (LoginResponse /\ last.pre.username # None) =>
          /\ last.calls = <<Call("auth_login",
                                 <<Head(last.pre.username),
                                   DecodeSaslLogin(last.cmd.response)>>)>>
          /\ last.res.action # "Close" =>
                smtp = IF last.res.code = 235 THEN Hello(last.pre.domain)
                       ELSE HelloAuth(last.pre.domain)

\* C15: in Auth a line that is not valid base64 is answered 501 with no
\* handler call and the session is back in HelloAuth, where the next line
\* is parsed as an ordinary command.
C15_BadBase64LeavesAuth ==
    (Stepped /\ last.pre.id = "Auth" /\ last.input.k \in {"cmd", "b64", "text"}
     /\ ~IsBase64(last.input)) =>
        /\ last.res = BAD_AUTH_SYNTAX
        /\ last.calls = <<>>
        /\ smtp = HelloAuth(last.pre.domain)

\* C16: HelloAuth is occupied only with AuthState=RequiresAuth; RSET in
\* Hello, Mail or Rcpt by an Authenticated session keeps the HELO domain and
\* the auth state and leaves the session in Hello, where a following MAIL
\* is passed to handler.mail.
C16_HelloAuthMeansUnauthenticated ==
    /\ smtp.id = "HelloAuth" => auth_state = "RequiresAuth"
    /\ (Stepped /\ last.cmd.k = "Rset" /\ last.pre.id \in {"Hello", "Mail", "Rcpt"}
        /\ last.pre_auth = "Authenticated") =>
          /\ last.res = OK
          /\ smtp = Hello(last.pre.domain)
          /\ auth_state = "Authenticated"
    /\ (Stepped /\ last.cmd.k = "Mail" /\ last.pre.id = "Hello") =>
          HasCall(last.calls, "mail")

\* C17: every handler.data_start call carries the HELO domain in force, the
\* reverse_path and is8bit of the most recent accepted MAIL, and a non-empty
\* forward_paths list holding exactly the RCPT paths the handler accepted
\* since that MAIL, in acceptance order: nothing rejected, nothing of an
\* earlier transaction, nothing discarded by RSET, HELO or EHLO.
C17_EnvelopeAccumulation ==
    [][HasCall(last'.calls, "data_start") =>
          /\ env.domain # None
          /\ env.mail # None
          /\ env.rcpts # <<>>
          /\ last'.calls =
                <<Call("data_start", <<Head(env.domain), Head(env.mail)[1],
                                       Head(env.mail)[2], env.rcpts>>)>>]_vars

\* DATA after two accepted recipients, the second transaction of the session
C17_Witness ==
    /\ HasCall(last.calls, "data_start")
    /\ last.calls[1].a[4] = <<"p2", "p1">>
    /\ last.pre.id = "Rcpt"
    /\ smtp.id = "Data"

\* C18: when the terminating "." (DataEnd) is processed in Data and the
\* session is not closed, it is in Hello with the same HELO domain, where a
\* MAIL is passed to the handler without a new HELO/EHLO; Data is never
\* occupied after DataEnd was processed.
C18_DataEndLeavesData ==
    /\ (Stepped /\ last.pre.id = "Data" /\ last.cmd = DataEnd
        /\ last.res.action # "Close") =>
          smtp = Hello(last.pre.domain)
    /\ (Stepped /\ last.pre.id = "Hello" /\ last.cmd.k = "Mail") =>
          /\ last.calls = <<Call("mail", <<last.pre.domain, last.cmd.reverse_path>>)>>
          /\ (~last.res.is_error /\ last.res.action # "Close") => smtp.id = "Mail"

\* C19: once the session is terminated every further input line and every
\* further command is answered INVALID_STATE (421), no handler callback is
\* made, and the session stays terminated.
C19_TerminatedIsAbsorbing ==
    /\ (Stepped /\ last.pre.id = "Invalid") =>
          /\ last.res = INVALID_STATE
          /\ last.calls = <<>>
          /\ smtp = NoState
    /\ \A cmd \in ParserCmds \cup {DataEnd, StartedTls} : \A h \in Oracles :
          Command(NoState, Fsm, h, cmd) = Out(INVALID_STATE, NoState, Fsm, <<>>)

\* after QUIT a line that is no command at all was answered 421
C19_Witness ==
    /\ last.pre.id = "Invalid"
    /\ last.input.k = "text"
    /\ last.res.code = 421
    /\ smtp = NoState

\* the events the handler has received
Events == parser.handler

Count(e) == Cardinality({i \in 1..Len(Events) : Events[i].e = e})

\* C20: after any sequence of data() calls followed by end(), the empty
\* sequence included, the events begin with the one Start event and end with
\* the one End event; before end() there is no End event.
C20_StartFirstEndLast ==
    /\ ended =>
          /\ Events[1] = EvStart
          /\ Count("Start") = 1
          /\ Events[Len(Events)] = EvEnd
          /\ Count("End") = 1
    /\ ~ended => Count("End") = 0

\* the scan of the events has met an End event with nothing open to close
Unbalanced == <<"unbalanced">>

RECURSIVE OpenAfter(_)
\* what is open after the first n events, innermost last: "M" for a
\* MultipartStart, "P" for a PartStart; a PartEnd closes the part that is
\* innermost, a MultipartEnd the multipart that is innermost
OpenAfter(n) ==
    IF n = 0 THEN <<>>
    ELSE LET open == OpenAfter(n - 1)
             e == Events[n].e
             closes(what) ==
                 IF open # <<>> /\ open[Len(open)] = what
                 THEN SubSeq(open, 1, Len(open) - 1) ELSE Unbalanced
         IN IF open = Unbalanced THEN Unbalanced
            ELSE CASE e = "MultipartStart" -> Append(open, "M")
                   [] e = "PartStart" -> Append(open, "P")
                   [] e = "PartEnd" -> closes("P")
                   [] e = "MultipartEnd" -> closes("M")
                   [] OTHER -> open

\* C21: in the events of any input, a MultipartEnd closes a MultipartStart
\* that is still open (so each MultipartStart has at most one MultipartEnd
\* and none comes without one), and between the two every PartEnd closes a
\* PartStart that is still open, none being left open at the MultipartEnd;
\* lines after the close boundary and a repeated close boundary included.
C21_MultipartEventsBalanced == OpenAfter(Len(Events)) # Unbalanced

\* an event without its offset
Shape(ev) ==
    IF "offset" \in DOMAIN ev THEN [e |-> ev.e] ELSE ev

\* the Header events of a sequence of header lines, one line each
HeaderEvents(lines) ==
    [i \in 1..Len(lines) |-> EvHeader(header(lines[i]).v)]

\* the events of one part: PartStart, its headers, BodyStart, its body
\* lines, PartEnd
PartEvents(part) ==
    <<[e |-> "PartStart"]>> \o HeaderEvents(part.headers)
        \o <<[e |-> "BodyStart"]>>
        \o [i \in 1..Len(part.body) |-> EvBody(part.body[i])]
        \o <<[e |-> "PartEnd"]>>

RECURSIVE PartsEvents(_)
PartsEvents(parts) ==
    IF parts = <<>> THEN <<>>
    ELSE PartEvents(Head(parts)) \o PartsEvents(Tail(parts))

\* a single-level multipart written in full and ended: every part has a
\* non-multipart Content-Type header, nothing follows the close boundary
WellFormedMultipart ==
    /\ ended
    /\ IsMultipart(message)
    /\ message.at = "closed"
    /\ message.epilogue = <<>>
    /\ \A i \in 1..Len(message.parts) :
           message.parts[i].headers = <<TextTypeLine>>

\* C22: a well-formed single-level multipart message yields exactly Start,
\* the top-level Header events, MultipartStart(kind), per part PartStart,
\* its Header events, BodyStart, one Body per body line and PartEnd, then
\* MultipartEnd and End; the multipart stack is empty afterwards.
C22_WellFormedMultipartEvents ==
    WellFormedMultipart =>
        /\ [i \in 1..Len(Events) |-> Shape(Events[i])]
              = <<EvStart>> \o HeaderEvents(message.top)
                    \o <<EvMultipartStart("Mixed")>>
                    \o PartsEvents(message.parts)
                    \o <<EvMultipartEnd, EvEnd>>
        /\ parser.multipart_stack = <<>>
        /\ result = "Ok"

\* two parts, both with body lines, under a Subject and a Content-Type
C22_Witness ==
    /\ WellFormedMultipart
    /\ message.top = <<SubjectLine, MixedTypeLine>>
    /\ Len(message.parts) = 2
    /\ \A i \in 1..2 : Len(message.parts[i].body) = 2

RECURSIVE Bodies(_)
\* the body lines written, part after part
Bodies(parts) ==
    IF parts = <<>> THEN <<>> ELSE Head(parts).body \o Bodies(Tail(parts))

\* the data of the Body events received, in order
BodyData ==
    LET bodies == SelectSeq(Events, LAMBDA ev : ev.e = "Body")
    IN [i \in 1..Len(bodies) |-> bodies[i].data]

\* C23: every body line, of a non-multipart message and of every part (a
\* part with headers but no Content-Type header included), is delivered as
\* exactly one Body event, in order: until something is written after the
\* close boundary, the Body events carry the body lines written so far.
C23_NoBodyLineLost ==
    message.epilogue = <<>> => BodyData = Bodies(message.parts)

\* the events a step has added
NewEvents ==
    SubSeq(parser'.handler, Len(parser.handler) + 1, Len(parser'.handler))

\* the step has parsed a Content-Type header of type multipart/*
ParsedMultipartType ==
    \E i \in 1..Len(NewEvents) :
        /\ NewEvents[i].e = "Header"
        /\ NewEvents[i].header.name = "Content-Type"
        /\ mime_type(NewEvents[i].header.mime_type).t = "Multipart"

\* C24: the multipart stack grows by one frame only in a step that parses
\* a Content-Type header of type multipart/* while a multipart is in force,
\* so a non-multipart Content-Type header never pushes a frame; and it
\* shrinks, by one frame, only in a step that meets a close boundary.
C24_StackDiscipline ==
    [][LET depth == Len(parser.multipart_stack)
           depth_after == Len(parser'.multipart_stack)
       IN /\ depth_after > depth =>
                 /\ depth_after = depth + 1
                 /\ parser.content_type.t = "Multipart"
                 /\ ParsedMultipartType
          /\ depth_after < depth =>
                 /\ depth_after = depth - 1
                 /\ \E i \in 1..Len(NewEvents) : NewEvents[i] = EvMultipartEnd]_vars

\* C28: no data() call runs handle_line in state Start (the unreachable!()
\* arm), and a close boundary met with an empty multipart stack is
\* answered Ok with the content type, the boundary and the empty stack
\* kept as they are.
C28_NeverUnreachable ==
    [][/\ result' # "Unreachable"
       /\ (parser.multipart_stack = <<>>
             /\ \E i \in 1..Len(NewEvents) : NewEvents[i] = EvMultipartEnd)
          => /\ result' = "Ok"
             /\ parser'.content_type = parser.content_type
             /\ parser'.boundary = parser.boundary
             /\ parser'.multipart_stack = <<>>]_vars

\* a close boundary has been met with nothing on the stack: the only
\* Content-Type header parsed is the multipart's own, which is still in force
C28_Witness ==
    /\ result = "Ok"
    /\ Count("MultipartEnd") = 1
    /\ Cardinality({i \in 1..Len(Events) :
                       /\ Events[i].e = "Header"
                       /\ Events[i].header.name = "Content-Type"}) = 1
    /\ parser.content_type = [t |-> "Multipart", kind |-> "Mixed"]
    /\ parser.boundary = Some(<<"-", "-", "X">>)
    /\ parser.multipart_stack = <<>>

\* every handler callback of the step is made in the phase that allows it
CallbacksInSequence ==
    /\ HasCall(last.calls, "mail") => last.pre.id = "Hello"
    /\ HasCall(last.calls, "rcpt") => last.pre.id \in {"Mail", "Rcpt"}
    /\ HasCall(last.calls, "data_start") =>
          last.pre.id = "Rcpt" /\ last.pre.forward_path # <<>>
    /\ (HasCall(last.calls, "data") \/ HasCall(last.calls, "data_end")) =>
          last.pre.id = "Data"

\* the client has sent MAIL, RCPT or DATA in a phase that does not accept it
OutOfSequence ==
    /\ Stepped
    /\ last.input.k = "cmd"
    /\ \/ last.input.cmd.k = "Mail" /\ last.pre.id # "Hello"
       \/ last.input.cmd.k = "Rcpt" /\ last.pre.id \notin {"Mail", "Rcpt"}
       \/ last.input.cmd.k = "Data" /\ last.pre.id # "Rcpt"

\* answered 503 with no handler call and no phase change
BadSequence ==
    /\ last.res = BAD_SEQUENCE_COMMANDS
    /\ last.calls = <<>>
    /\ smtp = last.pre

\* C25 as stated: handler.mail is called only in Hello, handler.rcpt only in
\* Mail or Rcpt, handler.data_start only in Rcpt, handler.data and
\* handler.data_end only in Data; and a MAIL, RCPT or DATA command sent in
\* any other phase of a live session is answered 503 with no handler call
\* and no phase change.
C25_OutOfSequenceIn503EveryPhase ==
    /\ CallbacksInSequence
    /\ (OutOfSequence /\ last.pre.id # "Invalid") => BadSequence

\* C25 amended: the callbacks are made in those phases only; a MAIL, RCPT or
\* DATA command out of sequence in Idle, Hello, HelloAuth, Mail or Rcpt is
\* answered 503 with no handler call and no phase change. Auth and Data do
\* not parse their input as commands: in Auth the line is the SASL response
\* (501 for a MAIL or RCPT line, no handler call), in Data it is message
\* data (passed to handler.data unless a write failed before) and the phase
\* is still Data.
C25_CallbacksInSequence ==
    /\ CallbacksInSequence
    /\ OutOfSequence =>
          CASE last.pre.id \in {"Idle", "Hello", "HelloAuth", "Mail", "Rcpt"} ->
                  last.cmd = last.input.cmd /\ BadSequence
            [] last.pre.id = "Auth" ->
                  IF last.input.cmd.k = "Data"
                  THEN last.cmd = AuthResponse("verb")
                  ELSE /\ last.res = BAD_AUTH_SYNTAX
                       /\ last.calls = <<>>
            [] last.pre.id = "Data" ->
                  /\ last.cmd.k = "none"
                  /\ last.res.code \in {0, 554}
                  /\ HasCall(last.calls, "data") = ~last.pre.has_error
                  /\ smtp.id = "Data"
            [] OTHER -> last.res = INVALID_STATE /\ last.calls = <<>>

\* a MAIL sent after the recipients is refused and the envelope is kept
C25_Witness ==
    /\ OutOfSequence
    /\ last.pre.id = "Rcpt"
    /\ last.cmd.k = "Mail"
    /\ BadSequence

\* a HELO command in a phase that dispatches commands
HeloDispatched ==
    /\ Stepped
    /\ last.cmd.k = "Helo"
    /\ last.pre.id \in {"Idle", "Hello", "HelloAuth", "Mail", "Rcpt"}

\* C26: the auth state is RequiresAuth or Authenticated exactly when auth
\* mechanisms are configured. Then a HELO in Idle, Hello, HelloAuth, Mail or
\* Rcpt is answered BAD_HELLO (505) with no handler.helo call and the phase
\* and envelope unchanged; with no mechanism configured the HELO calls
\* handler.helo with its domain and, on success, the phase is Hello with
\* the new domain and no envelope.
C26_HeloRefusedWhenAuthConfigured ==
    /\ (auth_state # "Unavailable") = (auth_mechanisms # <<>>)
    /\ HeloDispatched =>
          IF last.pre_auth # "Unavailable"
          THEN /\ last.res = BAD_HELLO
               /\ last.res.code = 505
               /\ last.calls = <<>>
               /\ smtp = last.pre
          ELSE /\ last.calls = <<Call("helo", <<last.cmd.domain>>)>>
               /\ (~last.res.is_error /\ last.res.action # "Close") =>
                     smtp = Hello(last.cmd.domain)

\* an authenticated client with a sender and a recipient sends HELO
C26_Witness ==
    /\ HeloDispatched
    /\ last.pre.id = "Rcpt"
    /\ last.pre_auth = "Authenticated"
    /\ last.res = BAD_HELLO
    /\ smtp = last.pre

\* C27: the START_TLS reply (action UpgradeTls) is given only while the TLS
\* state is Inactive; a STARTTLS command in Hello or HelloAuth while TLS is
\* Unavailable or Active is answered 503 and the phase stays as it is.
C27_StartTlsOnlyWhenInactive ==
    /\ (Stepped /\ last.res.action = "UpgradeTls") => last.pre_tls = "Inactive"
    /\ (Stepped /\ last.cmd.k = "StartTls"
        /\ last.pre.id \in {"Hello", "HelloAuth"}
        /\ last.pre_tls \in {"Unavailable", "Active"}) =>
          /\ last.res.code = 503
          /\ smtp = last.pre

\* two threads hold a message open at once
Concurrent(i, j) ==
    i # j /\ threads[i].pc = "open" /\ threads[j].pc = "open"

\* C29: every MailStore, the original and its clones, points to the one
\* counter; until 2^32 messages have been started no two message_file
\* calls, however interleaved, obtain the same counter value, so no two
\* messages get the same tmp file name and File::create never truncates a
\* message that is being written.
C29_CounterValuesDistinct ==
    /\ \A i \in 1..Len(stores) : stores[i].counter = 1
    /\ ~wrapped =>
          /\ \A i, j \in 1..Len(names) :
                 i # j => names[i].count # names[j].count /\ names[i] # names[j]
          /\ ~overwritten
          /\ \A i, j \in 1..Len(stores) :
                 Concurrent(i, j) => stores[i].state # stores[j].state

\* two clones hold messages open that were started in the same millisecond
C29_Witness ==
    /\ ~wrapped
    /\ Len(stores) >= 3
    /\ Concurrent(2, 3)
    /\ threads[2].ms = threads[3].ms
    /\ stores[2].counter = stores[3].counter
    /\ threads[2].count # threads[3].count

====
